---- MODULE Spec2Model ----
(***************************************************************************)
(* Model of the Mandarin photo-caption backend.  The repository holds      *)
(* three revisions of the server:                                          *)
(*   "server.js" : src/server.js            (one OpenRouter key)           *)
(*   "part_001"  : src/unnamed/part_001     (two OpenRouter keys)          *)
(*   "part_002"  : src/unnamed/part_002     (OpenAI key from environment,  *)
(*                                           single-call analyze handler)  *)
(* A running server is one of them; rev records which one.                 *)
(*                                                                         *)
(* JavaScript runs one callback at a time, so every action is the code     *)
(* between two awaits.  Reading a response body (response.json(),          *)
(* response.text()) is folded into the completion of the fetch.            *)
(*                                                                         *)
(* Time is counted in hours.  Strings that the code searches with          *)
(* String.includes are sequences of case-preserving tokens, and includes   *)
(* is the contiguous-subsequence test on them.  API keys are sequences of  *)
(* characters so that substring(0, 7) is a real prefix.  JavaScript        *)
(* objects are records, arrays are records with the one field items.       *)
(***************************************************************************)
EXTENDS Integers, Sequences, FiniteSets, TLC

\* ------------------------------------------------------------------ bounds
MaxClock == 24
MaxRetriesArg == 2
MaxBoots == 1
MaxClientTicks == 3
MaxSubmits == 3
MaxToday == 82

\* ------------------------------------------------------- program constants
CACHE_TTL == 24
MAX_FILE_SIZE == 10485760
KEY_PREFIX_LEN == 7
RETRIES_PART_002 == 2
TEST_RETRIES == 1
\* the browser client: lifetime of a localStorage cache entry in milliseconds,
\* and maxRetries of analyzeImageAndGenerateCaptions
CACHE_EXPIRY == 86400000
CLIENT_MAX_RETRIES == 2
\* GET /api/usage of part_002: the daily limit, the number of requests and
\* the cost (4.0 dollars, in the cost units of the model) above which
\* quotaWarning is set
DAILY_LIMIT == 100
REQUEST_WARNING == 80
COST_WARNING == 100000000

REVS == {"server.js", "part_001", "part_002"}
\* the slots of the requests a run can hold, numbered in order of arrival
Requests == {1, 2, 3}
\* the slots used by the runs of two requests
TwoRequests == {1, 2}

Null == <<>>

\* ----------------------------------------------------------------- strings
\* haystack.includes(needle) on token sequences
Includes(hay, needle) ==
    \E i \in 0..(Len(hay) - Len(needle)) :
        \A j \in 1..Len(needle) : hay[i + j] = needle[j]

\* prefix.startsWith on character sequences
StartsWith(s, p) ==
    /\ Len(p) <= Len(s)
    /\ \A j \in 1..Len(p) : s[j] = p[j]

\* s.substring(0, n)
Substring0(s, n) == SubSeq(s, 1, IF n <= Len(s) THEN n ELSE Len(s))

\* -------------------------------------------------------------------- keys
KeyA == <<"s","k","-","o","r","-","v","1","-","e","c","3">>
KeyB == <<"s","k","-","o","r","-","v","1","-","2","6","e">>
KeyC == <<"s","k","-","o","r","-","v","1","-","6","0","a">>
EnvKey == <<"s","k","-","p","r","o","j","-","9","f","1">>
EnvBackupKey == <<"s","k","-","p","r","o","j","-","b","c","2">>

OPENROUTER_API_KEYS(r) ==
    IF r = "server.js" THEN <<KeyA>>
    ELSE IF r = "part_001" THEN <<KeyB, KeyC>>
    ELSE <<>>

\* process.env of part_002 (dotenv reads the file .env)
OPENAI_API_KEY == EnvKey

AllKeys == {KeyA, KeyB, KeyC, EnvKey, EnvBackupKey}

isOpenAICompatible(key) ==
    /\ key # Null
    /\ StartsWith(key, <<"s","k","-">>)
    /\ ~StartsWith(key, <<"s","k","-","o","r","-","v","1">>)

\* ---------------------------------------------------------- error messages
Tok_OpenRouterOrOpenAI(r) == IF r = "part_002" THEN "OpenAI" ELSE "OpenRouter"

MsgInvalidKey(r) ==
    <<"Invalid","API","key","-","please","check","your",
      Tok_OpenRouterOrOpenAI(r),"API","key">>
MsgRateLimit ==
    <<"Rate","limit","exceeded","-","please","wait","before","trying","again">>
MsgCredits ==
    <<"Insufficient","OpenRouter","credits","-","please","add","credits",
      "to","your","account">>
MsgQuotaBackup == <<"API","quota","exceeded","-","trying","backup","key">>
MsgAccessBackup == <<"API","access","issue","-","trying","backup","key">>
MsgApiFailed(status) ==
    <<"API","request","failed",":",ToString(status),"statusText","-","errorText">>
MsgTimeout == <<"Request","timeout","-","API","request","took","too","long">>
MsgCannotConnect(r) ==
    <<"Cannot","connect","to",Tok_OpenRouterOrOpenAI(r),"API","-","check",
      "your","internet","connection">>
MsgCannotReach(r) ==
    <<"Cannot","reach",Tok_OpenRouterOrOpenAI(r),"servers","-","check","your",
      "internet","connection">>
MsgConnTimedOut(r) ==
    <<"Connection","to",Tok_OpenRouterOrOpenAI(r),"timed","out">>
MsgNetworkFailed ==
    <<"Network","request","failed","-","check","your","connection">>
MsgAllKeysFailed(r) ==
    IF r = "part_002" THEN <<"API","request","failed">>
    ELSE <<"All","API","keys","failed">>
MsgInvalidFileType ==
    <<"Invalid","file","type",".","Please","upload","an","image","file",".">>
MsgEmptyFile ==
    <<"Empty","file",".","Please","upload","a","valid","image",".">>
\* ReferenceError raised by the catch blocks that log a variable declared
\* with let inside the try block
MsgCleanTextNotDefined == <<"cleanAnalysisText","is","not","defined">>
MsgJsonTextNotDefined == <<"jsonText","is","not","defined">>
MsgAnalysisWrapper ==
    <<"AI","analysis","failed","-","unable","to","generate","personalized",
      "captions",":">>

\* errors a fetch (or the reading of its body) can throw
AbortError ==
    [name |-> "AbortError", code |-> "none",
     message |-> <<"This","operation","was","aborted">>]
ErrConnRefused ==
    [name |-> "FetchError", code |-> "ECONNREFUSED",
     message |-> <<"connect","ECONNREFUSED">>]
ErrFetchFailed ==
    [name |-> "TypeError", code |-> "none", message |-> <<"fetch","failed">>]
ErrBodyNotJson ==
    [name |-> "SyntaxError", code |-> "none",
     message |-> <<"Unexpected","token","<","in","JSON">>]

ThrownErrors ==
    {AbortError, ErrConnRefused, ErrFetchFailed, ErrBodyNotJson}
HttpErrorStatuses == {401, 402, 429, 500}
ReplyContents == {"good", "malformed"}

\* what an upstream attempt can come to
Outcomes ==
    [type : {"ok"}, content : ReplyContents]
    \cup [type : {"http"}, status : HttpErrorStatuses, quotaBody : BOOLEAN]
    \cup [type : {"throw"}, error : ThrownErrors]

\* lastError set in the else branch of response.ok
HttpLastError(r, status) ==
    IF r = "part_001" THEN MsgApiFailed(status)
    ELSE IF status = 401 THEN MsgInvalidKey(r)
    ELSE IF status = 429 THEN MsgRateLimit
    ELSE IF status = 402 THEN (IF r = "part_002" THEN MsgQuotaBackup ELSE MsgCredits)
    ELSE IF status = 403 /\ r = "part_002" THEN MsgAccessBackup
    ELSE MsgApiFailed(status)

\* lastError set in the catch block of an attempt
CatchLastError(r, error) ==
    IF r = "part_001" THEN error.message
    ELSE IF error.name = "AbortError" THEN MsgTimeout
    ELSE IF error.code = "ECONNREFUSED" THEN MsgCannotConnect(r)
    ELSE IF error.code = "ENOTFOUND" THEN MsgCannotReach(r)
    ELSE IF error.code = "ETIMEDOUT" THEN MsgConnTimedOut(r)
    ELSE IF Includes(error.message, <<"fetch">>) THEN MsgNetworkFailed
    ELSE error.message

\* the error field of the 500 answer of POST /api/analyze-image
ErrorMessageFor(r, message) ==
    IF Includes(message, <<"response","parsing","error">>)
        THEN "AI response format error"
    ELSE IF Includes(message, <<"API","request","failed">>)
        THEN "AI service unavailable"
    ELSE IF Includes(message, <<"All","API","keys","failed">>)
        THEN "Service temporarily unavailable"
    ELSE IF r = "part_001" THEN "Failed to process image"
    ELSE IF Includes(message, <<"rate","limit">>) \/ Includes(message, <<"quota">>)
        THEN "Service temporarily unavailable"
    ELSE IF Includes(message, <<"timeout">>)
        THEN "Request timeout"
    ELSE IF Includes(message, <<"network">>) \/ Includes(message, <<"ECONNREFUSED">>)
        THEN "Network error"
    ELSE "Failed to process image"

\* ----------------------------------------------------------------- uploads
\* mimetypes are token sequences so that startsWith('image/') is a prefix test
MimeTypes ==
    {<<"image","/","jpeg">>, <<"image","/","png">>, <<"image","/","webp">>,
     <<"image","/","gif">>, <<"image","/","bmp">>, <<"text","/","plain">>}
allowedTypes ==
    {<<"image","/","jpeg">>, <<"image","/","jpg">>, <<"image","/","png">>,
     <<"image","/","gif">>, <<"image","/","webp">>}
\* the formats the documentation lists as supported
DocumentedTypes ==
    {<<"image","/","jpeg">>, <<"image","/","png">>, <<"image","/","webp">>,
     <<"image","/","gif">>}

Contents == {"imgA", "imgB"}
FileSizes == {0, 2048, MAX_FILE_SIZE, MAX_FILE_SIZE + 1}
NoFile == [present |-> FALSE]
\* an empty upload has the empty buffer as content
Uploads ==
    {NoFile} \cup
    {[present |-> TRUE, mimetype |-> m, size |-> sz,
      buffer |-> IF sz = 0 THEN "empty" ELSE c] :
        m \in MimeTypes, sz \in FileSizes, c \in Contents}

\* crypto.createHash('sha256').update(buffer).digest('hex'): distinct
\* buffers of the model have distinct digests
generateImageHash(buffer) ==
    CASE buffer = "imgA" -> "9f2c"
      [] buffer = "imgB" -> "41d7"
      [] OTHER -> "e3b0"

\* parseInt(md5(buffer).substring(0, 8), 16)
Md5Num(buffer) ==
    CASE buffer = "imgA" -> 7
      [] buffer = "imgB" -> 12
      [] OTHER -> 3

\* ----------------------------------------------------- analyses and captions
Arr(s) == [items |-> s]
EmptyObject == [x \in {} |-> 0]

\* JSON.parse of a well-formed analysis reply, with the defaulted fields
ParsedAnalysis(buffer) ==
    [mainSubject |-> buffer, category |-> "objects",
     description |-> "upstream description", confidence |-> "medium"]

\* the captions a well-formed reply carries for an image
ParsedCaptions(buffer) ==
    <<[chinese |-> buffer, pinyin |-> "pinyin", english |-> "english",
       relevance |-> "high"]>>

validateCaptions(captions) ==
    LET keep == SelectSeq(captions, LAMBDA c : c.relevance # "low")
    IN  SubSeq(keep, 1, IF Len(keep) < 3 THEN Len(keep) ELSE 3)

generateFallbackAnalysis ==
    [mainSubject |-> "tu pian nei rong", category |-> "general",
     description |-> "fallback description", confidence |-> "medium"]

FallbackCategories ==
    <<"general", "nature", "people", "food", "animals", "objects">>
CaptionsPerCategory == 3

generateFallbackCaptions(buffer) ==
    LET hashNum == Md5Num(buffer)
        selectedCategory ==
            FallbackCategories[(hashNum % Len(FallbackCategories)) + 1]
        numCaptions == 2 + (hashNum % 2)
    IN  [i \in 1..numCaptions |->
            [chinese |-> selectedCategory,
             pinyin |-> ToString((hashNum + i - 1) % CaptionsPerCategory),
             english |-> "fallback", relevance |-> "high"]]

QuotaAnalysis ==
    [mainSubject |-> "image content",
     description |-> "unavailable due to API quota limits",
     category |-> "general"]
QuotaCaptions ==
    <<[chinese |-> "zhe shi yi zhang you qu de tu pian",
       pinyin |-> "pinyin", english |-> "This is an interesting image.",
       relevance |-> "medium"]>>

\* --------------------------------------------------------------- usageStats
EmptyFcn == [x \in {} |-> 0]
EmptyUsageStats ==
    [totalRequests |-> 0, totalCost |-> 0, requestsByKey |-> EmptyFcn,
     dailyUsage |-> EmptyFcn, imageHashes |-> EmptyFcn]

Put(f, k, v) == [x \in DOMAIN f \cup {k} |-> IF x = k THEN v ELSE f[x]]

\* new Date().toISOString().split('T')[0], as a day number
Today(t) == t \div 24

\* cost in units of a quarter-token: the request body of an image analysis is
\* longer than a caption prompt, a well-formed reply longer than a broken one
estimateApiCost(stage, content) ==
    (IF stage = "analysis" THEN 2 ELSE 1) + (IF content = "good" THEN 1 ELSE 0)

\* usage tracking that leaves totalRequests as it was
TrackUsage_NoCount(us, keyName, cost, t) ==
    LET byKey == Put(us.requestsByKey, keyName,
                     (IF keyName \in DOMAIN us.requestsByKey
                        THEN us.requestsByKey[keyName] ELSE 0) + 1)
        day == Today(t)
        old == IF day \in DOMAIN us.dailyUsage THEN us.dailyUsage[day]
               ELSE [requests |-> 0, cost |-> 0]
    IN  [us EXCEPT !.requestsByKey = byKey,
                   !.totalCost = @ + cost,
                   !.dailyUsage = Put(@, day, [requests |-> old.requests + 1,
                                               cost |-> old.cost + cost])]

\* the usage tracking of a successful attempt
TrackUsage(us, keyName, cost, t) ==
    LET byKey == Put(us.requestsByKey, keyName,
                     (IF keyName \in DOMAIN us.requestsByKey
                        THEN us.requestsByKey[keyName] ELSE 0) + 1)
        day == Today(t)
        old == IF day \in DOMAIN us.dailyUsage THEN us.dailyUsage[day]
               ELSE [requests |-> 0, cost |-> 0]
    IN  [us EXCEPT !.requestsByKey = byKey,
                   !.totalRequests = @ + 1,
                   !.totalCost = @ + cost,
                   !.dailyUsage = Put(@, day, [requests |-> old.requests + 1,
                                               cost |-> old.cost + cost])]

Has(us, imageHash) == imageHash \in DOMAIN us.imageHashes
getCachedResult(us, imageHash) == us.imageHashes[imageHash]

cacheResult(us, imageHash, result, t) ==
    [us EXCEPT !.imageHashes =
        Put(@, imageHash, [result |-> result, timestamp |-> t, accessCount |-> 1])]

\* updateCacheAccess that also renews the entry's timestamp
updateCacheAccess_Renew(us, imageHash, t) ==
    IF Has(us, imageHash)
    THEN LET cached == us.imageHashes[imageHash]
         IN [us EXCEPT !.imageHashes =
               Put(@, imageHash,
                   [result |-> cached.result, timestamp |-> t,
                    accessCount |-> cached.accessCount + 1, lastAccessed |-> t])]
    ELSE us

updateCacheAccess(us, imageHash, t) ==
    IF Has(us, imageHash)
    THEN LET cached == us.imageHashes[imageHash]
         IN [us EXCEPT !.imageHashes =
               Put(@, imageHash,
                   [result |-> cached.result, timestamp |-> cached.timestamp,
                    accessCount |-> cached.accessCount + 1, lastAccessed |-> t])]
    ELSE us

\* the 24 hour test of analyzeImage
IsFresh(entry, t) == (t - entry.timestamp) < CACHE_TTL

\* Object.fromEntries(map): the entries [key, value] of the Map, written as the
\* members of a JSON object
ObjectFromEntries(map) == {<<k, map[k]>> : k \in DOMAIN map}

\* saveUsageStats without Object.fromEntries: JSON.stringify writes a Map,
\* which has no enumerable properties, as {}
StatsToSave_MapAsIs(us) ==
    [totalRequests |-> us.totalRequests, totalCost |-> us.totalCost,
     requestsByKey |-> us.requestsByKey, dailyUsage |-> us.dailyUsage,
     imageHashes |-> {}]

\* what saveUsageStats writes: {...usageStats, imageHashes: Object.fromEntries}
StatsToSave(us) ==
    [totalRequests |-> us.totalRequests, totalCost |-> us.totalCost,
     requestsByKey |-> us.requestsByKey, dailyUsage |-> us.dailyUsage,
     imageHashes |-> ObjectFromEntries(us.imageHashes)]

\* new Map(Object.entries(object))
MapFromEntries(members) ==
    [k \in {m[1] : m \in members} |-> (CHOOSE m \in members : m[1] = k)[2]]

\* fs.existsSync(USAGE_FILE)
FileExists(file) == DOMAIN file # {}

\* the start of the server: usageStats = {...usageStats, ...savedStats} with
\* imageHashes turned back into a Map
LoadUsageStats(file) ==
    IF ~FileExists(file) THEN EmptyUsageStats
    ELSE LET spread == [fld \in DOMAIN EmptyUsageStats \cup DOMAIN file |->
                           IF fld \in DOMAIN file THEN file[fld]
                           ELSE EmptyUsageStats[fld]]
         IN IF "imageHashes" \in DOMAIN file
            THEN [spread EXCEPT !.imageHashes = MapFromEntries(file.imageHashes)]
            ELSE spread

\* -------------------------------------------------------------------- state
VARIABLES
    rev,                \* which revision of the server is running
    env,                \* process.env (used by part_002)
    now,                \* Date.now(), in hours
    usageStats,         \* the usageStats object
    usageFile,          \* content of usage-stats.json
    currentApiKeyIndex, \* round-robin index of server.js and part_001
    req,                \* per request: position and locals of its handler
    resp,               \* per request: the HTTP answer, once sent
    fetches,            \* upstream calls in flight
    upstream,           \* history: upstream calls made and answered with 2xx
    boots,              \* history: the times at which the server was restarted
    client              \* the page in the browser: its flags, clock, localStorage
                        \* and the call of analyzeImageAndGenerateCaptions

vars == <<rev, env, now, usageStats, usageFile, currentApiKeyIndex, req, resp,
          fetches, upstream, boots, client>>

BackupKeyChoices == {Null, EnvBackupKey, KeyC}

IdleReq ==
    [kind |-> "none", pc |-> "idle", buffer |-> "none", stage |-> "none",
     attempt |-> 0, maxRetries |-> 0, lastError |-> Null, analysis |-> Null,
     \* history of the request, read by the properties only
     bad |-> FALSE, freshHit |-> FALSE, servedAge |-> -1, stored |-> Null,
     calls |-> 0, callAttempts |-> 0, uniform |-> "none",
     lastOutcome |-> [type |-> "none"], counted |-> 0, touched |-> FALSE,
     \* history of a call made on its own: the index at its start, the keys
     \* its attempts sent, the name and the key of the attempt that was counted
     startIdx |-> 0, tried |-> <<>>, billed |-> Null]
NoResp == [status |-> 0]

\* the page as loaded: secure tells whether window.crypto.subtle exists
ClientStart(secure) ==
    [secure |-> secure, online |-> TRUE, now |-> 0, ticks |-> 0,
     cache |-> EmptyFcn, cacheHits |-> 0, totalRequests |-> 0,
     pc |-> "idle", file |-> Null, imageHash |-> Null, retryCount |-> 0,
     submits |-> 0,
     \* history, read by the properties only
     sent |-> 0, callSent |-> 0, startedAt |-> 0, priorAt |-> -1,
     priorData |-> Null, analyzed |-> EmptyFcn, result |-> [kind |-> "none"],
     retriedAfter |-> {}]

ServerInit ==
    /\ rev \in REVS
    /\ env \in [BACKUP_CAPTION_API_KEY : BackupKeyChoices]
    /\ (rev # "part_002" => env.BACKUP_CAPTION_API_KEY = Null)
    /\ now = 0
    /\ usageStats = EmptyUsageStats
    /\ usageFile = Null
    /\ currentApiKeyIndex = 0
    /\ req = [r \in Requests |-> IdleReq]
    /\ resp = [r \in Requests |-> NoResp]
    /\ fetches = {}
    /\ upstream = [calls |-> 0, ok |-> 0]
    /\ boots = <<>>

Init ==
    /\ ServerInit
    /\ client = ClientStart(TRUE)

\* ------------------------------------------------------------ key selection
NumKeys == Len(OPENROUTER_API_KEYS(rev))

getCurrentApiKey(idx) == OPENROUTER_API_KEYS(rev)[idx + 1]

\* switchToNextApiKey that leaves the index where it is
switchToNextApiKey_Stay(idx) == idx

switchToNextApiKey(idx) == (idx + 1) % NumKeys

getCaptionApiKey ==
    IF env.BACKUP_CAPTION_API_KEY # Null
       /\ isOpenAICompatible(env.BACKUP_CAPTION_API_KEY)
    THEN env.BACKUP_CAPTION_API_KEY
    ELSE OPENAI_API_KEY

\* the key an attempt of makeApiRequestWithFallback sends
AttemptKey(idx) ==
    IF rev = "part_002" THEN getCaptionApiKey ELSE getCurrentApiKey(idx)

\* the name under which a successful attempt is counted
KeyNames == <<"key_1", "key_2">>
UsageKeyName(idx, sentKey) ==
    IF rev = "part_002"
    THEN (IF sentKey = env.BACKUP_CAPTION_API_KEY THEN "backup_caption_key"
          ELSE "primary_caption_key")
    ELSE KeyNames[idx + 1]

\* maxRetries when the caller passes none
DefaultMaxRetries == IF rev = "part_002" THEN RETRIES_PART_002 ELSE NumKeys

\* does the fetch of makeApiRequestWithFallback carry an abort signal
HasTimeout == rev # "part_001"

\* requests are numbered in the order of their arrival
Arrives(r) ==
    /\ req[r].pc = "idle"
    /\ \A q \in Requests : q < r => req[q].pc # "idle"

\* ------------------------------------------------- end of a handler's step
\* ctx carries the values the step has computed so far:
\*   rq request locals, us usageStats, file usage-stats.json,
\*   idx currentApiKeyIndex, fs fetches in flight, up upstream history
Commit(r, ctx, answer) ==
    /\ req' = [req EXCEPT ![r] = ctx.rq]
    /\ resp' = [resp EXCEPT ![r] = answer]
    /\ usageStats' = ctx.us
    /\ usageFile' = ctx.file
    /\ currentApiKeyIndex' = ctx.idx
    /\ fetches' = ctx.fs
    /\ upstream' = ctx.up
    /\ UNCHANGED <<rev, env, now, boots, client>>

Ctx(r) ==
    [rq |-> req[r], us |-> usageStats, file |-> usageFile,
     idx |-> currentApiKeyIndex, fs |-> fetches, up |-> upstream]

\* the handler has answered; its locals are gone
Done(rq) ==
    [rq EXCEPT !.pc = "done", !.stage = "none", !.attempt = 0,
               !.lastError = Null, !.analysis = Null]

\* the request has changed usageStats
Touched(rq) == [rq EXCEPT !.touched = TRUE]

\* the cause class of an attempt's outcome
Cause(outcome) ==
    IF outcome.type = "none" THEN "none"
    ELSE IF outcome.type = "ok" THEN
        (IF outcome.content = "good" THEN "ok_good" ELSE "ok_malformed")
    ELSE IF outcome.type = "http" THEN
        (IF outcome.status = 401 THEN "auth"
         ELSE IF outcome.status = 429 THEN "rate"
         ELSE IF outcome.status = 402 THEN "quota"
         ELSE "http_other")
    ELSE IF outcome.error = AbortError THEN "timeout"
    ELSE IF outcome.error = ErrBodyNotJson THEN "body"
    ELSE "network"

\* the request's history after an attempt that ended with outcome o
Noted(rq, o) ==
    [rq EXCEPT !.lastOutcome = o,
               !.uniform = IF rq.kind # "analyze" THEN @
                           ELSE IF @ \in {"none", Cause(o)} THEN Cause(o)
                           ELSE "mixed"]

\* the catch block of POST /api/analyze-image in server.js and part_001
AnalyzeErrorAnswer(message) ==
    LET errorMessage == ErrorMessageFor(rev, message)
    IN  [status |-> 500,
         body |-> [error |-> errorMessage, technicalDetails |-> message]]

\* the catch block of POST /api/analyze-image in part_002
FallbackAnswer(buffer, message) ==
    [status |-> 200,
     body |-> [success |-> TRUE, analysis |-> generateFallbackAnalysis,
               captions |-> Arr(generateFallbackCaptions(buffer)),
               fallbackUsed |-> TRUE, error |-> message]]

\* makeApiRequestWithFallback throws message: the error travels up to the
\* route handler of the request
Throw(r, ctx, message) ==
    LET rq == ctx.rq IN
    IF rq.kind = "analyze"
    THEN Commit(r, [ctx EXCEPT !.rq = Done(rq)],
                AnalyzeErrorAnswer(IF rq.stage = "analysis"
                                   THEN MsgAnalysisWrapper \o message
                                   ELSE message))
    ELSE IF rq.kind = "test"
    THEN Commit(r, [ctx EXCEPT !.rq = Done(rq)],
                [status |-> 500,
                 body |-> [success |-> FALSE, message |-> "API connection failed",
                           error |-> message]])
    ELSE Commit(r, [ctx EXCEPT !.rq = Done(rq)],
                [status |-> -1, threw |-> message])

\* the for loop with its bound off by one: attempt <= maxRetries
LoopHead_OneMore(r, ctx) ==
    LET rq == ctx.rq IN
    IF rq.attempt <= rq.maxRetries
    THEN LET key == AttemptKey(ctx.idx)
             f == [req |-> r, attempt |-> rq.attempt, key |-> key,
                   signal |-> HasTimeout]
         IN Commit(r, [ctx EXCEPT !.rq = [rq EXCEPT !.pc = "fetching",
                                                   !.calls = @ + 1,
                                                   !.callAttempts = @ + 1,
                                                   !.tried = IF rq.kind = "call"
                                                             THEN Append(@, key)
                                                             ELSE @],
                                  !.fs = @ \cup {f},
                                  !.up = [@ EXCEPT !.calls = @ + 1]],
                   resp[r])
    ELSE Throw(r, ctx, IF rq.lastError # Null THEN rq.lastError
                       ELSE MsgAllKeysFailed(rev))

\* head of the for loop of makeApiRequestWithFallback
LoopHead(r, ctx) ==
    LET rq == ctx.rq IN
    IF rq.attempt < rq.maxRetries
    THEN LET key == AttemptKey(ctx.idx)
             f == [req |-> r, attempt |-> rq.attempt, key |-> key,
                   signal |-> HasTimeout]
         IN Commit(r, [ctx EXCEPT !.rq = [rq EXCEPT !.pc = "fetching",
                                                   !.calls = @ + 1,
                                                   !.callAttempts = @ + 1,
                                                   !.tried = IF rq.kind = "call"
                                                             THEN Append(@, key)
                                                             ELSE @],
                                  !.fs = @ \cup {f},
                                  !.up = [@ EXCEPT !.calls = @ + 1]],
                   resp[r])
    ELSE Throw(r, ctx, IF rq.lastError # Null THEN rq.lastError
                       ELSE MsgAllKeysFailed(rev))

\* a call of makeApiRequestWithFallback(requestBody, maxRetries)
StartCall(r, ctx, stage, maxRetries) ==
    LoopHead(r, [ctx EXCEPT !.rq = [@ EXCEPT !.stage = stage,
                                            !.attempt = 0,
                                            !.maxRetries = maxRetries,
                                            !.lastError = Null,
                                            !.callAttempts = 0,
                                            !.startIdx = IF ctx.rq.kind = "call"
                                                         THEN ctx.idx ELSE @]])

\* analyzeImage that caches the reply text before it is parsed
Return_CacheUnparsed(r, ctx, content) ==
    LET rq == ctx.rq IN
    IF rq.kind = "analyze" /\ rq.stage = "analysis"
    THEN IF content = "good"
         THEN LET analysis == ParsedAnalysis(rq.buffer)
                  us1 == cacheResult(ctx.us, generateImageHash(rq.buffer),
                                     analysis, now)
              IN StartCall(r, [ctx EXCEPT !.rq = [rq EXCEPT !.analysis = analysis],
                                          !.us = us1,
                                          !.file = StatsToSave(us1)],
                           "caption", DefaultMaxRetries)
         ELSE LET us1 == cacheResult(ctx.us, generateImageHash(rq.buffer),
                                     content, now)
              IN Throw(r, [ctx EXCEPT !.us = us1, !.file = StatsToSave(us1)],
                       MsgCleanTextNotDefined)
    ELSE IF rq.kind = "analyze" /\ rq.stage = "caption"
    THEN IF content = "good"
         THEN Commit(r, [ctx EXCEPT !.rq = Done(rq)],
                     [status |-> 200,
                      body |-> [success |-> TRUE, analysis |-> rq.analysis,
                                captions |-> Arr(validateCaptions(
                                    ParsedCaptions(rq.analysis.mainSubject))),
                                cached |-> FALSE]])
         ELSE Throw(r, ctx, MsgJsonTextNotDefined)
    ELSE IF rq.kind = "test"
    THEN Commit(r, [ctx EXCEPT !.rq = Done(rq)],
                [status |-> 200,
                 body |-> [success |-> TRUE,
                           message |-> "API connection successful",
                           response |-> content]])
    ELSE Commit(r, [ctx EXCEPT !.rq = Done(rq)],
                [status |-> -1, returned |-> content])

\* makeApiRequestWithFallback returns data whose message content is content:
\* the caller parses it and goes on
Return(r, ctx, content) ==
    LET rq == ctx.rq IN
    IF rq.kind = "analyze" /\ rq.stage = "analysis"
    THEN IF content = "good"
         THEN LET analysis == ParsedAnalysis(rq.buffer)
                  us1 == cacheResult(ctx.us, generateImageHash(rq.buffer),
                                     analysis, now)
              IN StartCall(r, [ctx EXCEPT !.rq = [rq EXCEPT !.analysis = analysis],
                                          !.us = us1,
                                          !.file = StatsToSave(us1)],
                           "caption", DefaultMaxRetries)
         ELSE Throw(r, ctx, MsgCleanTextNotDefined)
    ELSE IF rq.kind = "analyze" /\ rq.stage = "caption"
    THEN IF content = "good"
         THEN Commit(r, [ctx EXCEPT !.rq = Done(rq)],
                     [status |-> 200,
                      body |-> [success |-> TRUE, analysis |-> rq.analysis,
                                captions |-> Arr(validateCaptions(
                                    ParsedCaptions(rq.analysis.mainSubject))),
                                cached |-> FALSE]])
         ELSE Throw(r, ctx, MsgJsonTextNotDefined)
    ELSE IF rq.kind = "test"
    THEN Commit(r, [ctx EXCEPT !.rq = Done(rq)],
                [status |-> 200,
                 body |-> [success |-> TRUE,
                           message |-> "API connection successful",
                           response |-> content]])
    ELSE Commit(r, [ctx EXCEPT !.rq = Done(rq)],
                [status |-> -1, returned |-> content])

\* what the upstream can answer to the fetch f
PossibleOutcomes(f) ==
    {o \in Outcomes : (o.type = "throw" /\ o.error = AbortError) => f.signal}

\* the code after "await fetch" in makeApiRequestWithFallback
AttemptDone(r, ctx, f, outcome) ==
    LET rq == ctx.rq
        last == rq.attempt >= rq.maxRetries - 1
    IN
    IF outcome.type = "ok"
    THEN LET keyName == UsageKeyName(ctx.idx, f.key)
             us1 == TrackUsage(ctx.us, keyName,
                               estimateApiCost(rq.stage, outcome.content), now)
         IN Return(r, [ctx EXCEPT !.us = us1,
                                  !.file = StatsToSave(us1),
                                  !.up = [@ EXCEPT !.ok = @ + 1],
                                  !.rq = Touched([rq EXCEPT
                                      !.counted = @ + 1,
                                      !.billed = IF rq.kind = "call"
                                                 THEN [name |-> keyName, key |-> f.key]
                                                 ELSE @])],
                   outcome.content)
    ELSE IF outcome.type = "http"
    THEN LoopHead(r, [ctx EXCEPT
            !.rq = [rq EXCEPT !.lastError = HttpLastError(rev, outcome.status),
                              !.attempt = @ + 1],
            !.idx = IF rev # "part_002" /\ ~last
                    THEN switchToNextApiKey(@) ELSE @])
    ELSE LET rq1 == [rq EXCEPT !.lastError = CatchLastError(rev, outcome.error)]
             idx1 == IF rev # "part_002" /\ ~last
                     THEN switchToNextApiKey(ctx.idx) ELSE ctx.idx
         IN IF ~last /\ rev # "part_001"
            THEN Commit(r, [ctx EXCEPT !.rq = [rq1 EXCEPT !.pc = "delay"],
                                       !.idx = idx1],
                        resp[r])
            ELSE LoopHead(r, [ctx EXCEPT !.rq = [rq1 EXCEPT !.attempt = @ + 1],
                                         !.idx = idx1])

\* an upstream call of makeApiRequestWithFallback completes
FetchDone(r, f, outcome) ==
    /\ req[r].pc = "fetching"
    /\ req[r].stage # "combined"
    /\ f \in fetches
    /\ f.req = r
    /\ outcome \in PossibleOutcomes(f)
    \* the body of an error reply is only logged
    /\ outcome.type = "http" => ~outcome.quotaBody
    /\ AttemptDone(r, [Ctx(r) EXCEPT !.fs = @ \ {f},
                                    !.rq = Noted(@, outcome)],
                   f, outcome)

\* the 2 second wait before a retry is over
DelayDone(r) ==
    /\ req[r].pc = "delay"
    /\ LoopHead(r, [Ctx(r) EXCEPT !.rq = [@ EXCEPT !.attempt = @ + 1]])

\* ------------------------------------------------- POST /api/analyze-image
\* upload.single('image') with limits.fileSize: a larger file never reaches
\* the route handler, Express answers with its default error handler
MulterRejects(upload) == upload.present /\ upload.size > MAX_FILE_SIZE
MulterAnswer == [status |-> 500, body |-> [multerError |-> "LIMIT_FILE_SIZE"]]

NoFileAnswer == [status |-> 400, body |-> [error |-> "No image file provided"]]

\* an upload the documentation tells the user is not accepted
Undocumented(upload) ==
    \/ ~upload.present
    \/ upload.mimetype \notin DocumentedTypes
    \/ upload.size > MAX_FILE_SIZE

\* the request as the route handler sees it on arrival
Arrived(r, upload) ==
    LET h == generateImageHash(upload.buffer) IN
    [req[r] EXCEPT
        !.kind = "analyze",
        !.buffer = IF upload.present THEN upload.buffer ELSE "none",
        !.bad = Undocumented(upload),
        !.freshHit = /\ upload.present
                     /\ Has(usageStats, h)
                     /\ IsFresh(getCachedResult(usageStats, h), now)]

\* analyzeImage up to its first await (server.js, part_001)
analyzeImage(r, ctx) ==
    LET rq == ctx.rq
        imageHash == generateImageHash(rq.buffer)
    IN
    IF Has(ctx.us, imageHash) /\ IsFresh(getCachedResult(ctx.us, imageHash), now)
    THEN LET cached == getCachedResult(ctx.us, imageHash)
             us1 == updateCacheAccess(ctx.us, imageHash, now)
         IN \* return cached.result; the handler calls generateChineseDescriptions
            StartCall(r, [ctx EXCEPT
                            !.rq = Touched([rq EXCEPT
                                              !.analysis = cached.result,
                                              !.servedAge = now - cached.timestamp,
                                              !.stored = cached.result]),
                            !.us = us1,
                            !.file = StatsToSave(us1)],
                      "caption", DefaultMaxRetries)
    ELSE StartCall(r, ctx, "analysis", DefaultMaxRetries)

\* the route handler of server.js and part_001
AnalyzeHandler(r, upload) ==
    LET ctx == [Ctx(r) EXCEPT !.rq = Arrived(r, upload)]
        end == [ctx EXCEPT !.rq = Done(@)]
    IN
    IF ~upload.present THEN Commit(r, end, NoFileAnswer)
    ELSE IF ~StartsWith(upload.mimetype, <<"image", "/">>)
        THEN Commit(r, end, AnalyzeErrorAnswer(MsgInvalidFileType))
    ELSE IF upload.size = 0
        THEN Commit(r, end, AnalyzeErrorAnswer(MsgEmptyFile))
    ELSE analyzeImage(r, ctx)

UnsupportedAnswer(upload) ==
    [status |-> 400,
     body |-> [success |-> FALSE, error |-> "Unsupported file format",
               receivedFormat |-> upload.mimetype]]

\* the answer of part_002 when getCachedResult finds an entry:
\* analysis: cached.analysis || {}, captions: cached.captions || cached
CachedAnswer(cached) ==
    [status |-> 200,
     body |-> [success |-> TRUE,
               analysis |-> IF "analysis" \in DOMAIN cached
                            THEN cached.analysis ELSE EmptyObject,
               captions |-> IF "captions" \in DOMAIN cached
                            THEN cached.captions ELSE cached,
               cached |-> TRUE]]

\* the route handler of part_002, up to its await of the single fetch
AnalyzeHandlerOptimized(r, upload) ==
    LET ctx == [Ctx(r) EXCEPT !.rq = Arrived(r, upload)]
        end == [ctx EXCEPT !.rq = Done(@)]
        rq == ctx.rq
        imageHash == generateImageHash(rq.buffer)
    IN
    IF ~upload.present THEN Commit(r, end, NoFileAnswer)
    ELSE IF upload.mimetype \notin allowedTypes
        THEN Commit(r, end, UnsupportedAnswer(upload))
    ELSE IF Has(ctx.us, imageHash)
        THEN LET cached == getCachedResult(ctx.us, imageHash)
             IN Commit(r, [end EXCEPT !.rq = [@ EXCEPT
                                !.servedAge = now - cached.timestamp,
                                !.stored = cached.result]],
                       CachedAnswer(cached))
    ELSE Commit(r, [ctx EXCEPT
                      !.rq = [rq EXCEPT !.pc = "fetching", !.stage = "combined",
                                        !.calls = @ + 1],
                      !.fs = @ \cup {[req |-> r, attempt |-> 0,
                                      key |-> OPENAI_API_KEY, signal |-> FALSE]},
                      !.up = [@ EXCEPT !.calls = @ + 1]],
                resp[r])

\* POST /api/analyze-image arrives with the given upload
ReceiveAnalyze(r, upload) ==
    /\ Arrives(r)
    /\ upload \in Uploads
    /\ IF MulterRejects(upload)
       THEN Commit(r, [Ctx(r) EXCEPT !.rq = Done(Arrived(r, upload))], MulterAnswer)
       ELSE IF rev = "part_002" THEN AnalyzeHandlerOptimized(r, upload)
       ELSE AnalyzeHandler(r, upload)

\* the text of a well-formed combined reply, parsed by the regular expressions
\* of part_002; a reply without the expected sections leaves analysis = {} and
\* no caption, and the fallback captions are pushed
CombinedParse(buffer, content) ==
    IF content = "good"
    THEN [analysis |-> [mainSubject |-> buffer,
                        description |-> "upstream description",
                        category |-> "general"],
          captions |-> Arr(ParsedCaptions(buffer))]
    ELSE [analysis |-> EmptyObject,
          captions |-> Arr(generateFallbackCaptions(buffer))]

QuotaResult == [analysis |-> QuotaAnalysis, captions |-> Arr(QuotaCaptions)]

\* the quota test on an error reply of the single fetch
IsQuotaError(outcome) == outcome.status = 429 \/ outcome.quotaBody

\* the single fetch of the part_002 handler completes
FetchDoneCombined(r, f, outcome) ==
    /\ req[r].pc = "fetching"
    /\ req[r].stage = "combined"
    /\ f \in fetches
    /\ f.req = r
    /\ outcome \in PossibleOutcomes(f)
    /\ LET ctx == [Ctx(r) EXCEPT !.fs = @ \ {f},
                                  !.rq = Noted(@, outcome)]
           rq == ctx.rq
           end == [ctx EXCEPT !.rq = Done(@)]
           imageHash == generateImageHash(rq.buffer)
       IN
       IF outcome.type = "throw"
       THEN Commit(r, end, FallbackAnswer(rq.buffer, outcome.error.message))
       ELSE IF outcome.type = "http"
       THEN IF IsQuotaError(outcome)
            THEN LET us1 == cacheResult(ctx.us, imageHash, QuotaResult, now)
                 IN Commit(r, [end EXCEPT !.us = us1, !.file = StatsToSave(us1),
                                          !.rq = Touched(@)],
                           [status |-> 200,
                            body |-> [success |-> TRUE,
                                      analysis |-> QuotaAnalysis,
                                      captions |-> Arr(QuotaCaptions),
                                      quotaExceeded |-> TRUE]])
            ELSE Commit(r, end,
                        FallbackAnswer(rq.buffer, <<"API","request","failed",":","errorMessage">>))
       ELSE LET parsed == CombinedParse(rq.buffer, outcome.content)
                us1 == cacheResult(ctx.us, imageHash, parsed, now)
                us2 == [us1 EXCEPT !.totalRequests = @ + 1]
            IN Commit(r, [end EXCEPT !.us = us2, !.file = StatsToSave(us2),
                                     !.up = [@ EXCEPT !.ok = @ + 1],
                                     !.rq = Touched([@ EXCEPT !.counted = @ + 1])],
                      [status |-> 200,
                       body |-> [success |-> TRUE,
                                 analysis |-> parsed.analysis,
                                 captions |-> parsed.captions]])

\* ------------------------------------------------------------ other routes
\* GET /api/test: makeApiRequestWithFallback(testRequest, 1)
ApiTest(r) ==
    /\ Arrives(r)
    /\ rev # "part_001"
    /\ StartCall(r, [Ctx(r) EXCEPT !.rq = [@ EXCEPT !.kind = "test"]],
                 "test", TEST_RETRIES)

\* a call makeApiRequestWithFallback(requestBody, maxRetries) on its own
DirectCall(r, maxRetries) ==
    /\ Arrives(r)
    /\ maxRetries \in 0..MaxRetriesArg
    /\ StartCall(r, [Ctx(r) EXCEPT !.rq = [@ EXCEPT !.kind = "call"]],
                 "call", maxRetries)

\* the stats object of GET /api/usage
UsageReport ==
    [totalRequests |-> usageStats.totalRequests,
     totalCost |-> usageStats.totalCost,
     requestsByKey |-> usageStats.requestsByKey,
     dailyUsage |-> usageStats.dailyUsage,
     cacheSize |-> Cardinality(DOMAIN usageStats.imageHashes),
     activeApiKeys |-> IF rev = "part_002" THEN 1 ELSE NumKeys]

\* POST /api/clear-cache that resets the whole usageStats object
ClearCache_ResetAll(r) ==
    /\ Arrives(r)
    /\ LET us1 == EmptyUsageStats
       IN Commit(r, [Ctx(r) EXCEPT !.rq = Touched(Done([@ EXCEPT !.kind = "clear-cache"])),
                                   !.us = us1, !.file = StatsToSave(us1)],
                 [status |-> 200,
                  body |-> [success |-> TRUE, message |-> "Cache cleared"]])

\* POST /api/clear-cache without the call of saveUsageStats
ClearCache_NoSave(r) ==
    /\ Arrives(r)
    /\ LET us1 == [usageStats EXCEPT !.imageHashes = EmptyFcn]
       IN Commit(r, [Ctx(r) EXCEPT !.rq = Touched(Done([@ EXCEPT !.kind = "clear-cache"])),
                                   !.us = us1],
                 [status |-> 200,
                  body |-> [success |-> TRUE, message |-> "Cache cleared"]])

\* POST /api/clear-cache
ClearCache(r) ==
    /\ Arrives(r)
    /\ LET us1 == [usageStats EXCEPT !.imageHashes = EmptyFcn]
       IN Commit(r, [Ctx(r) EXCEPT !.rq = Touched(Done([@ EXCEPT !.kind = "clear-cache"])),
                                   !.us = us1, !.file = StatsToSave(us1)],
                 [status |-> 200,
                  body |-> [success |-> TRUE, message |-> "Cache cleared"]])

\* the files of the working directory, which express.static('.') serves
ServerSource == "server.js"
WorkingDirectory ==
    {"index.html", "script.js", ServerSource, "package.json",
     "usage-stats.json", ".env"}

\* the keys a file of the working directory holds: server.js and part_001
\* carry their keys as literals, part_002 reads them from .env
KeysInFile(file) ==
    IF file = ServerSource THEN
        {OPENROUTER_API_KEYS(rev)[i] : i \in 1..Len(OPENROUTER_API_KEYS(rev))}
    ELSE IF file = ".env" /\ rev = "part_002" THEN
        {OPENAI_API_KEY} \cup ({env.BACKUP_CAPTION_API_KEY} \ {Null})
    ELSE {}

\* serve-static ignores dotfiles unless told otherwise
IsDotfile(file) == file = ".env"

\* GET /<file> through express.static('.')
GetStatic(r, file) ==
    /\ Arrives(r)
    /\ file \in WorkingDirectory
    /\ Commit(r, [Ctx(r) EXCEPT !.rq = Done([@ EXCEPT !.kind = "static"])],
              IF IsDotfile(file) THEN [status |-> 404]
              ELSE [status |-> 200, file |-> file])

KeyPrefix(key) == IF key # Null THEN Substring0(key, KEY_PREFIX_LEN) ELSE Null

\* GET /api/check-config (part_002)
GetCheckConfig(r) ==
    /\ Arrives(r)
    /\ rev = "part_002"
    /\ Commit(r, [Ctx(r) EXCEPT !.rq = Done([@ EXCEPT !.kind = "check-config"])],
              [status |-> 200,
               body |-> [hasApiKey |-> OPENAI_API_KEY # Null,
                         keyPrefix |-> KeyPrefix(OPENAI_API_KEY),
                         keyLength |-> Len(OPENAI_API_KEY),
                         hasBackupCaptionKey |-> env.BACKUP_CAPTION_API_KEY # Null,
                         backupCaptionKeyPrefix |-> KeyPrefix(env.BACKUP_CAPTION_API_KEY),
                         backupCaptionKeyCompatible |->
                             isOpenAICompatible(env.BACKUP_CAPTION_API_KEY)]])

\* the clock advances by half the lifetime of a cache entry
TickStep == CACHE_TTL \div 2

\* time passes
Tick ==
    /\ now + TickStep <= MaxClock
    /\ now' = now + TickStep
    /\ UNCHANGED <<rev, env, usageStats, usageFile, currentApiKeyIndex, req,
                   resp, fetches, upstream, boots, client>>

\* no handler is suspended at an await
Quiet == \A r \in Requests : req[r].pc \in {"idle", "done"}

\* the server process is stopped while no handler is suspended and started
\* again: the module is initialised anew and loads usage-stats.json
Restart ==
    /\ Quiet
    /\ Len(boots) < MaxBoots
    /\ boots' = Append(boots, now)
    /\ usageStats' = LoadUsageStats(usageFile)
    /\ currentApiKeyIndex' = 0
    /\ UNCHANGED <<rev, env, now, usageFile, req, resp, fetches, upstream,
                   client>>

\* the routes of the server, one request after the other.  No route reaches
\* the wait before a retry: server.js calls with maxRetries = 1 (one key),
\* part_001 has no wait, and the routes of part_002 call with maxRetries = 1
\* or fetch on their own.
Next ==
    \/ \E r \in TwoRequests, upload \in Uploads : Quiet /\ ReceiveAnalyze(r, upload)
    \/ \E r \in TwoRequests, f \in fetches, o \in Outcomes : FetchDone(r, f, o)
    \/ \E r \in TwoRequests, f \in fetches, o \in Outcomes : FetchDoneCombined(r, f, o)
    \/ \E r \in TwoRequests : Quiet /\ ApiTest(r)
    \/ \E r \in TwoRequests : Quiet /\ ClearCache(r)
    \/ \E r \in TwoRequests, file \in WorkingDirectory : Quiet /\ GetStatic(r, file)
    \/ \E r \in TwoRequests : Quiet /\ GetCheckConfig(r)
    \/ Tick

Spec == Init /\ [][Next]_vars

\* no call of makeApiRequestWithFallback has been made
NoCallYet == \A q \in Requests : req[q].pc = "idle"

\* a call of makeApiRequestWithFallback with any maxRetries, and the calls
\* that GET /api/test makes, before, during or after it
CallNext ==
    \/ \E r \in TwoRequests, m \in 0..MaxRetriesArg : NoCallYet /\ DirectCall(r, m)
    \/ \E r \in TwoRequests : ApiTest(r)
    \/ \E r \in TwoRequests, f \in fetches, o \in Outcomes : FetchDone(r, f, o)
    \/ \E r \in TwoRequests : DelayDone(r)

CallSpec == Init /\ [][CallNext]_vars

\* every upstream fetch completes or is aborted by its timeout, every timer
\* fires, and the event loop runs the continuation
CallFairness ==
    WF_vars(\E r \in TwoRequests :
                \/ \E f \in fetches, o \in Outcomes : FetchDone(r, f, o)
                \/ DelayDone(r))

FairCallSpec == CallSpec /\ CallFairness

\* uploads that every revision accepts
GoodUploads ==
    {u \in Uploads : /\ u.present
                     /\ u.mimetype = <<"image","/","jpeg">>
                     /\ u.size = 2048}

\* the server under load: requests for accepted images arrive while others
\* are in progress
ServeNext ==
    \/ \E r \in TwoRequests, upload \in GoodUploads : ReceiveAnalyze(r, upload)
    \/ \E r \in TwoRequests, f \in fetches, o \in Outcomes : FetchDone(r, f, o)
    \/ \E r \in TwoRequests, f \in fetches, o \in Outcomes : FetchDoneCombined(r, f, o)
    \/ \E r \in TwoRequests : ClearCache(r)

ServeSpec == Init /\ [][ServeNext]_vars

\* the life of the usage state: requests for accepted images one after the
\* other, the cache is cleared, time passes, the process is restarted
PersistNext ==
    \/ \E r \in TwoRequests, upload \in GoodUploads : Quiet /\ ReceiveAnalyze(r, upload)
    \/ \E r \in TwoRequests, f \in fetches, o \in Outcomes : FetchDone(r, f, o)
    \/ \E r \in TwoRequests, f \in fetches, o \in Outcomes : FetchDoneCombined(r, f, o)
    \/ \E r \in TwoRequests : Quiet /\ ClearCache(r)
    \/ Restart
    \/ Tick

PersistSpec == Init /\ [][PersistNext]_vars

\* calls of makeApiRequestWithFallback on their own, one after the other
SerialCallNext ==
    \/ \E r \in TwoRequests, m \in 0..MaxRetriesArg : Quiet /\ DirectCall(r, m)
    \/ \E r \in TwoRequests, f \in fetches, o \in Outcomes : FetchDone(r, f, o)
    \/ \E r \in TwoRequests : DelayDone(r)

SerialCallSpec == Init /\ [][SerialCallNext]_vars

\* calls of makeApiRequestWithFallback on their own, started while others are
\* in progress
RaceNext ==
    \/ \E r \in TwoRequests, m \in 0..MaxRetriesArg : DirectCall(r, m)
    \/ \E r \in TwoRequests, f \in fetches, o \in Outcomes : FetchDone(r, f, o)
    \/ \E r \in TwoRequests : DelayDone(r)

RaceSpec == Init /\ [][RaceNext]_vars

\* three requests one after the other: images are analysed and the cache is
\* cleared between them
ClearNext ==
    \/ \E r \in Requests, upload \in GoodUploads : Quiet /\ ReceiveAnalyze(r, upload)
    \/ \E r \in Requests, f \in fetches, o \in Outcomes : FetchDone(r, f, o)
    \/ \E r \in Requests, f \in fetches, o \in Outcomes : FetchDoneCombined(r, f, o)
    \/ \E r \in Requests : Quiet /\ ClearCache(r)

ClearSpec == Init /\ [][ClearNext]_vars

\* the life of a cache entry of analyzeImage (server.js, part_001): three
\* requests for accepted images one after the other, while time passes
AgeInit == Init /\ rev # "part_002"

\* the same accepted image, uploaded again and again
SameImage == {u \in GoodUploads : u.buffer = "imgA"}

AgeNext ==
    \/ \E r \in Requests, upload \in SameImage : Quiet /\ ReceiveAnalyze(r, upload)
    \/ \E r \in Requests, f \in fetches, o \in Outcomes : FetchDone(r, f, o)
    \/ Tick

AgeSpec == AgeInit /\ [][AgeNext]_vars

\* ------------------------------------------------- GET /api/usage (quota)
\* process.env.UNLIMITED_MODE === 'true' || true
UNLIMITED_MODE ==
    LET isTrue == /\ "UNLIMITED_MODE" \in DOMAIN env
                  /\ env.UNLIMITED_MODE = "true"
    IN IF isTrue THEN isTrue ELSE TRUE

\* usageStats.dailyUsage[today] || { requests: 0, cost: 0 }
TodayUsage ==
    IF Today(now) \in DOMAIN usageStats.dailyUsage
    THEN usageStats.dailyUsage[Today(now)]
    ELSE [requests |-> 0, cost |-> 0]

\* the estimatedQuotaStatus object of part_002
QuotaStatus ==
    [requestsToday |-> TodayUsage.requests,
     costToday |-> TodayUsage.cost,
     estimatedDailyLimit |-> IF UNLIMITED_MODE THEN [text |-> "unlimited"]
                             ELSE [number |-> DAILY_LIMIT],
     quotaWarning |-> IF UNLIMITED_MODE THEN FALSE
                      ELSE (TodayUsage.requests > REQUEST_WARNING
                            \/ TodayUsage.cost > COST_WARNING),
     unlimitedMode |-> UNLIMITED_MODE]

\* GET /api/usage
GetUsage(r) ==
    /\ Arrives(r)
    /\ Commit(r, [Ctx(r) EXCEPT !.rq = Done([@ EXCEPT !.kind = "usage"])],
              [status |-> 200,
               body |-> IF rev = "part_002"
                        THEN [stats |-> UsageReport,
                              todayRequests |-> TodayUsage.requests,
                              todayCost |-> TodayUsage.cost,
                              estimatedQuotaStatus |-> QuotaStatus]
                        ELSE [stats |-> UsageReport]])

\* usageStats after n counted calls of GET /api/test on the first day: what
\* n applications of the usage tracking to the empty object leave
UsedStats(n) ==
    IF n = 0 THEN EmptyUsageStats
    ELSE LET cost == n * estimateApiCost("test", "good") IN
         [totalRequests |-> n, totalCost |-> cost,
          requestsByKey |-> Put(EmptyFcn, "primary_caption_key", n),
          dailyUsage |-> Put(EmptyFcn, Today(0), [requests |-> n, cost |-> cost]),
          imageHashes |-> EmptyFcn]

\* the values UNLIMITED_MODE can be given in .env
UnlimitedModeValues == {"true", "false", "0"}

\* part_002 started with a usage file of the day and with UNLIMITED_MODE
\* unset or set
QuotaInit ==
    /\ rev = "part_002"
    /\ \/ env = [BACKUP_CAPTION_API_KEY |-> Null]
       \/ \E v \in UnlimitedModeValues :
             env = [BACKUP_CAPTION_API_KEY |-> Null, UNLIMITED_MODE |-> v]
    /\ now = 0
    /\ \E n \in 0..MaxToday :
          /\ usageStats = UsedStats(n)
          /\ usageFile = IF n = 0 THEN Null ELSE StatsToSave(UsedStats(n))
    /\ currentApiKeyIndex = 0
    /\ req = [r \in Requests |-> IdleReq]
    /\ resp = [r \in Requests |-> NoResp]
    /\ fetches = {}
    /\ upstream = [calls |-> 0, ok |-> 0]
    /\ boots = <<>>
    /\ client = ClientStart(TRUE)

QuotaNext ==
    \/ \E r \in TwoRequests : Quiet /\ GetUsage(r)
    \/ \E r \in TwoRequests : Quiet /\ ApiTest(r)
    \/ \E r \in TwoRequests, f \in fetches, o \in Outcomes : FetchDone(r, f, o)

QuotaSpec == QuotaInit /\ [][QuotaNext]_vars

\* ------------------------------------------------------- the browser client
ServerVars == <<rev, env, now, usageStats, usageFile, currentApiKeyIndex, req,
                resp, fetches, upstream, boots>>

\* File objects the user can pick: the bytes, and the character codes of
\* `${file.name}_${file.size}_${file.type}_${file.lastModified}`
ClientFiles ==
    {[content |-> "photo1", info |-> <<97, 95, 49>>],
     [content |-> "photo2", info |-> <<98, 95, 50>>]}

\* the loop of generateFallbackHash: hash = ((hash << 5) - hash) + char,
\* hash & hash; for strings this short the value stays below 2^31 and the
\* conversion to a 32-bit integer leaves it unchanged
RECURSIVE HashChars(_, _)
HashChars(hash, chars) ==
    IF chars = <<>> THEN hash
    ELSE HashChars((hash * 32 - hash) + Head(chars), Tail(chars))

AbsValue(n) == IF n < 0 THEN -n ELSE n

\* Math.abs(hash).toString(16) + '_' + Date.now().toString(36): both numerals
\* determine their number, so the pair of numbers stands for the text
generateFallbackHash(file, t) == <<"fallback", AbsValue(HashChars(0, file.info)), t>>

\* generateImageHash of the client: SHA-256 of the bytes when crypto.subtle
\* exists, the fallback hash otherwise
ClientImageHash(file, c) ==
    IF c.secure THEN <<"sha256", file.content>>
    ELSE generateFallbackHash(file, c.now)

\* the test of getCachedResponse
CacheFresh(c, imageHash) ==
    /\ imageHash \in DOMAIN c.cache
    /\ c.now - c.cache[imageHash].timestamp < CACHE_EXPIRY

cacheResponse(c, imageHash, data) ==
    [c EXCEPT !.cache = [h \in DOMAIN @ \cup {imageHash} |->
                            IF h = imageHash
                            THEN [data |-> data, timestamp |-> c.now]
                            ELSE @[h]]]

\* Array.isArray on a value of the model
IsArray(v) == DOMAIN v = {"items"}

\* the body of a successful answer of POST /api/analyze-image
AnalysisResult(file) ==
    [success |-> TRUE, analysis |-> file.content, captions |-> Arr(<<file.content>>)]

ClientReturned(c, data) ==
    [c EXCEPT !.pc = "idle", !.result = [kind |-> "returned", data |-> data]]

\* the test of the catch block on error.message
IsRetryMessage(message) ==
    \/ Includes(message, <<"timeout">>)
    \/ Includes(message, <<"network">>)
    \/ Includes(message, <<"fetch">>)

MsgOffline ==
    <<"You","are","offline",".","Please","check","your","internet",
      "connection","and","try","again",".">>
MsgAnalysisFailed == <<"Analysis","failed">>

\* the catch block: retry after 2 s when the message names a timeout, the
\* network or fetch, or the error is an AbortError; throw otherwise
ClientCaught(c, cause, error) ==
    IF /\ c.retryCount < CLIENT_MAX_RETRIES
       /\ (IsRetryMessage(error.message) \/ error.name = "AbortError")
    THEN [c EXCEPT !.pc = "delay", !.retriedAfter = @ \cup {cause}]
    ELSE [c EXCEPT !.pc = "idle",
                   !.result = [kind |-> "thrown", cause |-> cause]]

\* after the cache: the online test, then the fetch
ClientGoesUpstream(c) ==
    IF ~c.online
    THEN ClientCaught(c, "offline", [name |-> "Error", message |-> MsgOffline])
    ELSE [c EXCEPT !.pc = "fetching", !.sent = @ + 1, !.callSent = @ + 1]

\* analyzeImageAndGenerateCaptions(imageFile, retryCount) up to its fetch
ClientCall(c, file, retryCount) ==
    LET imageHash == ClientImageHash(file, c)
        c0 == [c EXCEPT !.file = file, !.imageHash = imageHash,
                        !.retryCount = retryCount]
    IN IF CacheFresh(c0, imageHash)
       THEN LET cached == c0.cache[imageHash].data
                c1 == [c0 EXCEPT !.cacheHits = @ + 1]
            IN IF IsArray(cached.captions) THEN ClientReturned(c1, cached)
               ELSE ClientGoesUpstream(c1)
       ELSE ClientGoesUpstream(c0)

\* the user submits a file
Submit(file) ==
    /\ client.pc = "idle"
    /\ client.submits < MaxSubmits
    /\ file \in ClientFiles
    /\ LET known == file.content \in DOMAIN client.analyzed
           c == [client EXCEPT
                    !.submits = @ + 1, !.callSent = 0, !.startedAt = client.now,
                    !.priorAt = IF known THEN client.analyzed[file.content].at ELSE -1,
                    !.priorData = IF known THEN client.analyzed[file.content].data
                                  ELSE Null,
                    !.result = [kind |-> "none"], !.retriedAfter = {}]
       IN client' = ClientCall(c, file, 0)
    /\ UNCHANGED ServerVars

\* the message field of the error answers of POST /api/analyze-image: the
\* text the handler substitutes when the upstream was unreachable, and
\* error.message passed on as it is (part_001, whose fetch failed)
ServerErrorMessages ==
    {<<"Unable","to","connect","to","the","AI","analysis","service",".">>,
     MsgAnalysisWrapper \o ErrFetchFailed.message}

\* what the fetch of the client can come to: a 2xx answer with success true,
\* one with success false, an error answer with its message, a rejection
\* (network failure, or the abort after 60 s)
ClientOutcomes ==
    {[type |-> "success"], [type |-> "not_success"]}
    \cup [type : {"http_error"}, message : ServerErrorMessages]
    \cup [type : {"rejected"}, error : {ErrFetchFailed, AbortError}]

ClientFetchDone(outcome) ==
    /\ client.pc = "fetching"
    /\ outcome \in ClientOutcomes
    /\ client' =
         IF outcome.type = "success"
         THEN LET data == AnalysisResult(client.file)
                  c1 == cacheResponse(client, client.imageHash, data)
                  c2 == [c1 EXCEPT
                            !.totalRequests = @ + 1,
                            !.analyzed = [f \in DOMAIN @ \cup {client.file.content} |->
                                            IF f = client.file.content
                                            THEN [at |-> client.now, data |-> data]
                                            ELSE @[f]]]
              IN ClientReturned(c2, data)
         ELSE IF outcome.type = "not_success"
              THEN ClientCaught(client, "not_success",
                                [name |-> "Error", message |-> MsgAnalysisFailed])
         ELSE IF outcome.type = "http_error"
              THEN ClientCaught(client, "http_error",
                                [name |-> "Error", message |-> outcome.message])
         ELSE ClientCaught(client, "rejected", outcome.error)
    /\ UNCHANGED ServerVars

\* the 2 s wait of the catch block is over: the function calls itself
ClientRetry ==
    /\ client.pc = "delay"
    /\ client' = ClientCall(client, client.file, client.retryCount + 1)
    /\ UNCHANGED ServerVars

\* the clock of the browser advances by a millisecond or by half a day
ClockSteps == {1, CACHE_EXPIRY \div 2}
ClientTick(step) ==
    /\ step \in ClockSteps
    /\ client.ticks < MaxClientTicks
    /\ client' = [client EXCEPT !.now = @ + step, !.ticks = @ + 1]
    /\ UNCHANGED ServerVars

\* navigator.onLine changes
ToggleOnline ==
    /\ client' = [client EXCEPT !.online = ~@]
    /\ UNCHANGED ServerVars

ClientInit ==
    /\ ServerInit
    /\ rev = "server.js"
    /\ \E secure \in BOOLEAN : client = ClientStart(secure)

ClientNext ==
    \/ \E file \in ClientFiles : Submit(file)
    \/ \E outcome \in ClientOutcomes : ClientFetchDone(outcome)
    \/ ClientRetry
    \/ \E step \in ClockSteps : ClientTick(step)
    \/ ToggleOnline

ClientSpec == ClientInit /\ [][ClientNext]_vars

\* a pending fetch settles and a pending timer fires
ClientFairness ==
    WF_vars((\E outcome \in ClientOutcomes : ClientFetchDone(outcome)) \/ ClientRetry)

FairClientSpec == ClientSpec /\ ClientFairness

TypeOK ==
    /\ rev \in REVS
    /\ now \in 0..MaxClock
    /\ currentApiKeyIndex \in 0..1
    /\ \A r \in Requests : req[r].pc \in {"idle", "fetching", "delay", "done"}

\* =============================================================== properties
IsAnalyze(r) == req[r].kind = "analyze" /\ req[r].pc = "done"
HasBody(r) == "body" \in DOMAIN resp[r]
Succeeded(r) ==
    /\ resp[r].status = 200
    /\ HasBody(r)
    /\ "success" \in DOMAIN resp[r].body
    /\ resp[r].body.success
AnsweredCached(r) ==
    /\ Succeeded(r)
    /\ "cached" \in DOMAIN resp[r].body
    /\ resp[r].body.cached
IsErrorAnswer(r) == resp[r].status >= 400

\* C1: the server answers from its cache only while fewer than 24 hours have
\* passed since the entry for the image hash was stored, on every code path
\* that reads the cache; after 24 hours the image is analyzed afresh.
C1_CacheServedOnlyWithin24h ==
    \A r \in Requests : req[r].servedAge # -1 => req[r].servedAge < CACHE_TTL

\* C2: when POST /api/analyze-image is answered from the server cache, the
\* analysis and the captions of the answer equal the analysis and the captions
\* that cacheResult stored for the image hash.
C2_CachedAnswerEqualsStored ==
    \A r \in Requests :
        AnsweredCached(r) =>
            /\ resp[r].body.analysis = req[r].stored.analysis
            /\ resp[r].body.captions = req[r].stored.captions

\* C3: when the cache holds an unexpired entry for the uploaded image, POST
\* /api/analyze-image completes without any upstream API call and without
\* changing the usage counters.
C3_FreshHitMakesNoUpstreamCall ==
    \A r \in Requests :
        (IsAnalyze(r) /\ req[r].freshHit) =>
            (req[r].calls = 0 /\ req[r].counted = 0)

\* C4: when the upstream call succeeds but the reply is malformed, POST
\* /api/analyze-image does not fail: it answers success with the hardcoded
\* canned captions.
C4_MalformedReplyGetsCannedCaptions ==
    \A r \in Requests :
        (IsAnalyze(r) /\ Cause(req[r].lastOutcome) = "ok_malformed") =>
            /\ Succeeded(r)
            /\ resp[r].body.captions = Arr(generateFallbackCaptions(req[r].buffer))

\* C5: when the upstream refuses every attempt because a limit is reached
\* (429, or 402 / insufficient quota), POST /api/analyze-image for a valid
\* image still answers success:true with a non-empty list of captions.
C5_LimitReachedStillAnswersCaptions ==
    \A r \in Requests :
        (IsAnalyze(r) /\ ~req[r].bad /\ req[r].uniform \in {"rate", "quota"}) =>
            /\ Succeeded(r)
            /\ "items" \in DOMAIN resp[r].body.captions
            /\ Len(resp[r].body.captions.items) > 0

CategoryCauses == {"auth", "rate", "quota", "timeout", "network"}

\* C6: in server.js, when every attempt of a request fails with the same
\* cause (401, 429, 402, timeout, network error), POST /api/analyze-image
\* answers 500 with the category message of that cause (rate limit and quota:
\* 'Service temporarily unavailable', timeout: 'Request timeout', network:
\* 'Network error'), never the default 'Failed to process image'.
C6_EachCauseHasItsCategoryMessage ==
    \A r \in Requests :
        (rev = "server.js" /\ IsAnalyze(r) /\ req[r].uniform \in CategoryCauses) =>
            /\ resp[r].status = 500
            /\ resp[r].body.error # "Failed to process image"
            /\ req[r].uniform \in {"rate", "quota"} =>
                   resp[r].body.error = "Service temporarily unavailable"
            /\ req[r].uniform = "timeout" => resp[r].body.error = "Request timeout"
            /\ req[r].uniform = "network" => resp[r].body.error = "Network error"

\* the character strings an answer carries
TextFields == {"keyPrefix", "backupCaptionKeyPrefix"}
AnswerTexts(a) ==
    IF "body" \in DOMAIN a
    THEN {a.body[fld] : fld \in (TextFields \cap DOMAIN a.body)}
    ELSE {}
ConfiguredKeys == UNION {KeysInFile(file) : file \in WorkingDirectory}
IsKeyPrefix(text) ==
    text # Null /\ \E key \in ConfiguredKeys : StartsWith(key, text)

\* C8: no answer of any HTTP endpoint (static files and the configuration
\* endpoints included) contains an upstream API key, a prefix of one, or a
\* file in which a key is stored.
C8_NoKeyMaterialInAnyAnswer ==
    \A r \in Requests :
        /\ "file" \in DOMAIN resp[r] => KeysInFile(resp[r].file) = {}
        /\ \A text \in AnswerTexts(resp[r]) : ~IsKeyPrefix(text)

\* C9: an upload that is not JPEG, PNG, WebP or GIF, or is larger than 10 MB,
\* or carries no file, is rejected with an error answer; no upstream call is
\* made for it and neither the cache nor the usage counters change.
C9_BadUploadRejectedWithoutEffect ==
    \A r \in Requests :
        (IsAnalyze(r) /\ req[r].bad) =>
            /\ IsErrorAnswer(r)
            /\ req[r].calls = 0
            /\ ~req[r].touched

RECURSIVE SumOver(_, _)
SumOver(f, S) ==
    IF S = {} THEN 0
    ELSE LET x == CHOOSE y \in S : TRUE IN f[x] + SumOver(f, S \ {x})

\* C10: starting from empty statistics, the statistics GET /api/usage reports
\* are consistent: totalRequests equals the sum of requestsByKey, equals the
\* sum of dailyUsage[d].requests, and equals the number of upstream calls that
\* returned a successful response.
C10_UsageStatsConsistent ==
    LET stats == UsageReport
        byKey == SumOver(stats.requestsByKey, DOMAIN stats.requestsByKey)
        requestsOf == [d \in DOMAIN stats.dailyUsage |-> stats.dailyUsage[d].requests]
        byDay == SumOver(requestsOf, DOMAIN requestsOf)
    IN  /\ stats.totalRequests = byKey
        /\ stats.totalRequests = byDay
        /\ stats.totalRequests = upstream.ok

\* ---- C7
IsCall(r) == req[r].kind \in {"call", "test"}
InCall(r) == req[r].pc \in {"fetching", "delay"}
CallFailed(r) ==
    /\ IsCall(r)
    /\ req[r].pc = "done"
    /\ ("threw" \in DOMAIN resp[r] \/ resp[r].status = 500)
CallReturned(r) ==
    /\ IsCall(r)
    /\ req[r].pc = "done"
    /\ ("returned" \in DOMAIN resp[r] \/ resp[r].status = 200)
ThrownMessage(a) == IF "threw" \in DOMAIN a THEN a.threw ELSE a.body.error
ReturnedContent(a) == IF "returned" \in DOMAIN a THEN a.returned ELSE a.body.response

\* the error the last finished attempt of the call recorded
LastRecorded(r) ==
    LET o == req[r].lastOutcome IN
    IF o.type = "http" THEN HttpLastError(rev, o.status)
    ELSE IF o.type = "throw" THEN CatchLastError(rev, o.error)
    ELSE MsgAllKeysFailed(rev)

AttemptsBounded == \A r \in Requests : req[r].callAttempts <= req[r].maxRetries

OneFetchPerCall ==
    \A r \in Requests : Cardinality({f \in fetches : f.req = r}) <= 1

ThrowsLastError ==
    \A r \in Requests :
        CallFailed(r) =>
            /\ req[r].callAttempts = req[r].maxRetries
            /\ req[r].lastOutcome.type # "ok"
            /\ ThrownMessage(resp[r]) = LastRecorded(r)

StartsAfterPrevious ==
    \A r \in Requests :
        (\E f \in fetches' : f.req = r /\ f \notin fetches) =>
            ~(\E g \in fetches \cap fetches' : g.req = r)

ReturnsFirstSuccess ==
    \A r \in Requests :
        (IsCall(r) /\ req'[r].lastOutcome # req[r].lastOutcome
                   /\ req'[r].lastOutcome.type = "ok") =>
            /\ req'[r].pc = "done"
            /\ ReturnedContent(resp'[r]) = req'[r].lastOutcome.content
            /\ ~(\E f \in fetches' : f.req = r)

\* C7: every call of makeApiRequestWithFallback(requestBody, maxRetries)
\* terminates when each fetch completes or is aborted: it makes at most
\* maxRetries attempts, starts an attempt only after the previous one has
\* finished, returns the response of the first successful attempt without
\* further attempts, and throws the last recorded error when all maxRetries
\* attempts have failed.
C7_CallTerminatesWithinMaxRetries ==
    /\ [](AttemptsBounded /\ OneFetchPerCall /\ ThrowsLastError)
    /\ [][StartsAfterPrevious /\ ReturnsFirstSuccess]_vars
    /\ <>[](\A r \in Requests : ~InCall(r))

\* a call has thrown the timeout message after maxRetries >= 2 attempts, the
\* last of which was aborted, and a call made by GET /api/test has returned
\* the reply of its one attempt
C7_Witness ==
    \E r, q \in Requests :
        /\ CallReturned(q)
        /\ req[q].kind = "test"
        /\ req[q].callAttempts = 1
        /\ req[r].kind = "call"
        /\ CallFailed(r)
        /\ req[r].maxRetries >= 2
        /\ req[r].callAttempts = req[r].maxRetries
        /\ req[r].lastOutcome = [type |-> "throw", error |-> AbortError]
        /\ ThrownMessage(resp[r]) = MsgTimeout

\* ---- C11
CacheHashes(us) == DOMAIN us.imageHashes

\* the usage state us2 has the counters and the cache of us1
SameUsageState(us1, us2) ==
    /\ us2.totalRequests = us1.totalRequests
    /\ us2.totalCost = us1.totalCost
    /\ us2.requestsByKey = us1.requestsByKey
    /\ us2.dailyUsage = us1.dailyUsage
    /\ CacheHashes(us2) = CacheHashes(us1)
    /\ \A h \in CacheHashes(us1) :
           /\ us2.imageHashes[h].result = us1.imageHashes[h].result
           /\ us2.imageHashes[h].timestamp = us1.imageHashes[h].timestamp
           /\ us2.imageHashes[h].accessCount = us1.imageHashes[h].accessCount

\* C11: saving the usage state and loading it at the start of the server is a
\* round trip: the state a restart loads has the counters and the cache
\* (hashes, results, timestamps, access counts) of the state before it, and
\* every entry is fresh after the restart exactly if it was fresh before.
C11_SaveLoadRoundTrip ==
    [][boots' # boots =>
          /\ SameUsageState(usageStats, usageStats')
          /\ SameUsageState(usageStats, LoadUsageStats(StatsToSave(usageStats)))
          /\ \A h \in CacheHashes(usageStats) :
                 IsFresh(usageStats'.imageHashes[h], now')
                     <=> IsFresh(usageStats.imageHashes[h], now)]_vars

\* the server was restarted while its cache held an entry stored earlier, and
\* the entry, now 24 hours old, is in the cache of the restarted server
C11_Witness ==
    /\ Len(boots) = 1
    /\ usageStats.totalRequests > 0
    /\ \E h \in CacheHashes(usageStats) :
           /\ usageStats.imageHashes[h].timestamp < boots[1]
           /\ ~IsFresh(usageStats.imageHashes[h], now)

\* ---- C12
\* the successful upstream calls the requests have counted
CountedByRequests == SumOver([r \in Requests |-> req[r].counted], Requests)

\* C12: each save writes the whole usage state: for any interleaving of
\* concurrent requests, after every step that changes the counters or the
\* cache the file usage-stats.json holds the state in memory, and when all
\* requests have completed the file holds the final state, with every
\* successful upstream call of every request counted in it.
C12_FileHoldsMemoryState ==
    /\ [][usageStats' # usageStats =>
             /\ FileExists(usageFile')
             /\ LoadUsageStats(usageFile') = usageStats']_vars
    /\ [](Quiet =>
             /\ LoadUsageStats(usageFile) = usageStats
             /\ LoadUsageStats(usageFile).totalRequests = CountedByRequests)

\* two requests for different images have completed, each with a successful
\* upstream call, and the file holds both cache entries
C12_Witness ==
    /\ Quiet
    /\ \A r \in TwoRequests : IsAnalyze(r) /\ req[r].counted > 0
    /\ req[1].buffer # req[2].buffer
    /\ FileExists(usageFile)
    /\ Cardinality(usageFile.imageHashes) = 2

\* ------------------------------------------------------------------- C13
\* the step in which request r is answered by POST /api/clear-cache
ClearStep(r) ==
    /\ req[r].pc = "idle"
    /\ req'[r].pc = "done"
    /\ req'[r].kind = "clear-cache"

\* the step in which request r, an analysis, arrives right after a request
\* that cleared the cache
AnalyzeAfterClear(r) ==
    /\ r > 1
    /\ req[r - 1].kind = "clear-cache"
    /\ req[r].pc = "idle"
    /\ req'[r].kind = "analyze"

CountersOf(us) ==
    [totalRequests |-> us.totalRequests, totalCost |-> us.totalCost,
     requestsByKey |-> us.requestsByKey, dailyUsage |-> us.dailyUsage]

\* C13: after POST /api/clear-cache, GET /api/usage reports cacheSize 0, the
\* usage file holds an empty cache map, the request and cost counters are
\* unchanged, and the next analysis of any image, cached before or not, sends
\* a request to the upstream API
C13_ClearCacheEmptiesCache ==
    [][\A r \in Requests :
          /\ ClearStep(r) =>
                /\ UsageReport'.cacheSize = 0
                /\ FileExists(usageFile')
                /\ usageFile'.imageHashes = {}
                /\ CountersOf(usageStats') = CountersOf(usageStats)
                /\ CountersOf(LoadUsageStats(usageFile')) = CountersOf(usageStats)
          /\ AnalyzeAfterClear(r) =>
                /\ req'[r].pc = "fetching"
                /\ req'[r].stage \in {"analysis", "combined"}
                /\ req'[r].servedAge = -1
                /\ \E f \in fetches' \ fetches : f.req = r
                /\ upstream'.calls = upstream.calls + 1]_vars

\* an image was analysed and cached, the cache was cleared, and the same
\* image, analysed again, was sent upstream
C13_Witness ==
    /\ IsAnalyze(1) /\ Succeeded(1) /\ req[1].counted > 0
    /\ req[2].kind = "clear-cache"
    /\ IsAnalyze(3) /\ req[3].buffer = req[1].buffer
    /\ req[3].servedAge = -1 /\ req[3].calls > 0 /\ req[3].counted > 0
    /\ usageStats.totalRequests = req[1].counted + req[3].counted

\* ------------------------------------------------------------------- C14
\* C14: in the browser client, a file analysed successfully less than 24 hours
\* before it is submitted again is answered with the stored result from the
\* local cache, without a network request, online or offline, with the
\* SHA-256 hash and with the fallback hash
C14_RepeatServedFromLocalCache ==
    (/\ client.priorAt # -1
     /\ client.startedAt - client.priorAt < CACHE_EXPIRY)
    => /\ client.pc = "idle"
       /\ client.result = [kind |-> "returned", data |-> client.priorData]
       /\ client.callSent = 0

\* ------------------------------------------------------------------- C15
\* C15: in server.js, when an upstream call succeeds but its reply text is
\* not JSON (in analyzeImage or in generateChineseDescriptions), the error
\* reaching the route handler carries 'response parsing error' and the
\* answer is HTTP 500 with error 'AI response format error'
C15_ParseFailureAnswersFormatError ==
    \A r \in Requests :
        (/\ rev = "server.js"
         /\ IsAnalyze(r)
         /\ Cause(req[r].lastOutcome) = "ok_malformed")
        => /\ resp[r].status = 500
           /\ Includes(resp[r].body.technicalDetails,
                       <<"response", "parsing", "error">>)
           /\ resp[r].body.error = "AI response format error"

\* ------------------------------------------------------------------- C16
RoundRobinKeys == {getCurrentApiKey(i) : i \in 0..(NumKeys - 1)}
KeysTried(r) == {req[r].tried[i] : i \in 1..Len(req[r].tried)}

\* a call on its own with the default maxRetries, in a revision with a
\* round-robin index
DefaultCall(r) ==
    /\ rev # "part_002"
    /\ req[r].kind = "call"
    /\ req[r].maxRetries = NumKeys

\* no call was started after the call of r
LatestCall(r) == \A q \in Requests : q > r => req[q].pc = "idle"

\* C16: a call of makeApiRequestWithFallback with the default maxRetries = N
\* that runs with no other call in progress sends the keys in round-robin
\* order from the index it found; each failed attempt but the last moves the
\* index by one modulo N; a call whose attempts all failed has sent every
\* configured key exactly once (so it fails only if no key was accepted);
\* the index stays within 0..N-1
C16_RoundRobinUsesEveryKeyOnce ==
    /\ rev # "part_002" => currentApiKeyIndex \in 0..(NumKeys - 1)
    /\ \A r \in Requests :
         DefaultCall(r) =>
           /\ \A i \in 1..Len(req[r].tried) :
                 req[r].tried[i]
                   = getCurrentApiKey((req[r].startIdx + i - 1) % NumKeys)
           /\ (LatestCall(r) /\ req[r].callAttempts > 0) =>
                 currentApiKeyIndex
                   = (req[r].startIdx + req[r].callAttempts - 1) % NumKeys
           /\ CallFailed(r) =>
                 /\ Len(req[r].tried) = NumKeys
                 /\ KeysTried(r) = RoundRobinKeys

\* part_001, two keys: a call that found the index at the second key has
\* failed on both keys, the second key first
C16_Witness ==
    \E r \in Requests :
        /\ DefaultCall(r)
        /\ NumKeys = 2
        /\ CallFailed(r)
        /\ req[r].startIdx = 1
        /\ req[r].tried = <<getCurrentApiKey(1), getCurrentApiKey(0)>>
        /\ currentApiKeyIndex = 0

\* ------------------------------------------------------------------- C17
\* C17: with N >= 2 keys and several calls of makeApiRequestWithFallback in
\* progress at once, every call whose N attempts all failed has tried every
\* configured key at least once
C17_ConcurrentCallsTryEveryKey ==
    \A r \in Requests :
        (DefaultCall(r) /\ NumKeys >= 2 /\ CallFailed(r))
        => KeysTried(r) = RoundRobinKeys

\* ------------------------------------------------------------------- C18
\* the name under which requestsByKey counts the calls sent with key
NameOfKey(key) ==
    IF rev = "part_002" THEN UsageKeyName(0, key)
    ELSE KeyNames[CHOOSE i \in 1..NumKeys : OPENROUTER_API_KEYS(rev)[i] = key]

\* C18: whatever the interleaving of concurrent calls, a successful upstream
\* call is counted in requestsByKey under the key its Authorization header
\* carried, not under the key the shared index designates when the response
\* arrives
C18_CountedUnderTheKeySent ==
    \A r \in Requests :
        req[r].billed # Null => req[r].billed.name = NameOfKey(req[r].billed.key)

\* ------------------------------------------------------------------- C19
\* C19: whatever the interleaving of concurrent requests, totalRequests has
\* grown by exactly the number of upstream calls that came back successful:
\* every step that takes in a successful reply adds one in that same step,
\* no other step changes the counter, and once all requests have completed
\* the counter equals the number of successful upstream calls
C19_TotalRequestsCountsSuccessfulCalls ==
    /\ [][/\ usageStats'.totalRequests - usageStats.totalRequests
              = upstream'.ok - upstream.ok
          /\ upstream'.ok - upstream.ok \in {0, 1}]_vars
    /\ [](Quiet => /\ usageStats.totalRequests = upstream.ok
                   /\ upstream.ok = CountedByRequests)

\* server.js: two requests for the same image have completed, each with two
\* successful upstream calls: the second arrived before the first had cached
\* its analysis, so the two were in progress together
C19_Witness ==
    /\ Quiet
    /\ rev = "server.js"
    /\ IsAnalyze(1) /\ req[1].counted = 2
    /\ IsAnalyze(2) /\ req[2].counted = 2
    /\ req[1].buffer = req[2].buffer
    /\ usageStats.totalRequests = 4

\* ------------------------------------------------------------------- C20
\* the analysis of the answer came from the server cache
ServedFromCache(r) == req[r].servedAge # -1

\* C20: the cached field of a successful answer of POST /api/analyze-image is
\* true exactly when the analysis of the answer was served from the server
\* cache, and false exactly when an upstream call of this request computed it
C20_CachedFieldTellsTheSource ==
    \A r \in Requests :
        (IsAnalyze(r) /\ Succeeded(r))
        => /\ "cached" \in DOMAIN resp[r].body
           /\ resp[r].body.cached <=> ServedFromCache(r)

\* ------------------------------------------------------------------- C21
\* the step in which the analysis request r arrives
AnalyzeArrives(r) == req[r].pc = "idle" /\ req'[r].kind = "analyze"

\* the step in which analyzeImage answers request r from the cache
HitStep(r) == AnalyzeArrives(r) /\ req'[r].servedAge # -1

\* C21: a cache hit in analyzeImage adds exactly one to the entry's
\* accessCount and sets lastAccessed, and leaves the entry's result and
\* timestamp as they were; an entry is served only while less than 24 hours
\* have passed since it was stored, however often and however recently it
\* was read
C21_HitsDoNotExtendLifetime ==
    [][\A r \in Requests :
          LET h == generateImageHash(req'[r].buffer) IN
          /\ HitStep(r) =>
                /\ Has(usageStats, h) /\ Has(usageStats', h)
                /\ usageStats'.imageHashes[h].accessCount
                     = usageStats.imageHashes[h].accessCount + 1
                /\ usageStats'.imageHashes[h].lastAccessed = now
                /\ usageStats'.imageHashes[h].result = usageStats.imageHashes[h].result
                /\ usageStats'.imageHashes[h].timestamp
                     = usageStats.imageHashes[h].timestamp
                /\ now - usageStats.imageHashes[h].timestamp < CACHE_TTL
                /\ req'[r].analysis = usageStats.imageHashes[h].result
          /\ (/\ AnalyzeArrives(r)
              /\ Has(usageStats, h)
              /\ now - usageStats.imageHashes[h].timestamp >= CACHE_TTL) =>
                /\ req'[r].servedAge = -1
                /\ req'[r].pc = "fetching"
                /\ req'[r].stage = "analysis"
                /\ usageStats' = usageStats]_vars

\* an image was analysed and stored at time 0, served from the cache 12
\* hours later, and 24 hours after it was stored a third request for it is
\* sent upstream although the entry was read 12 hours before
C21_Witness ==
    LET h == generateImageHash(req[1].buffer) IN
    /\ IsAnalyze(1) /\ Succeeded(1) /\ req[1].servedAge = -1
    /\ IsAnalyze(2) /\ req[2].servedAge = CACHE_TTL \div 2
    /\ req[3].kind = "analyze" /\ req[3].pc = "fetching"
    /\ req[3].stage = "analysis" /\ req[3].servedAge = -1
    /\ now = CACHE_TTL
    /\ Has(usageStats, h)
    /\ usageStats.imageHashes[h].timestamp = 0
    /\ usageStats.imageHashes[h].accessCount = 2
    /\ usageStats.imageHashes[h].lastAccessed = CACHE_TTL \div 2

\* ------------------------------------------------------------------- C22
\* the step in which an upstream attempt of request r comes back
AttemptReturns(r) == req[r].pc = "fetching" /\ req'[r] # req[r]

FailedAttempt(r) ==
    AttemptReturns(r) /\ req'[r].lastOutcome.type \in {"http", "throw"}

\* the entry for imageHash is new or was stored anew in this step
StoredInStep(imageHash) ==
    /\ Has(usageStats', imageHash)
    /\ \/ ~Has(usageStats, imageHash)
       \/ usageStats'.imageHashes[imageHash].result
            # usageStats.imageHashes[imageHash].result
       \/ usageStats'.imageHashes[imageHash].timestamp
            # usageStats.imageHashes[imageHash].timestamp

\* C22: in server.js the cache is written only after an upstream analysis
\* reply was received and parsed: an entry is stored only in the step that
\* parses a well-formed analysis reply; a call of analyzeImage that misses
\* the cache changes nothing when it starts, a failed upstream attempt
\* leaves the cache and all usage counters (and the usage file) unchanged,
\* and an analysis reply that cannot be parsed leaves the cache map unchanged
C22_CacheWrittenOnlyAfterParsedReply ==
    [][rev = "server.js" =>
         /\ \A h \in DOMAIN usageStats'.imageHashes :
               StoredInStep(h) =>
                 \E r \in Requests :
                    /\ AttemptReturns(r)
                    /\ req[r].stage = "analysis"
                    /\ req'[r].lastOutcome = [type |-> "ok", content |-> "good"]
                    /\ h = generateImageHash(req[r].buffer)
                    /\ usageStats'.imageHashes[h].result = ParsedAnalysis(req[r].buffer)
         /\ \A r \in Requests :
               /\ (AnalyzeArrives(r) /\ req'[r].servedAge = -1) =>
                     usageStats' = usageStats /\ usageFile' = usageFile
               /\ FailedAttempt(r) =>
                     usageStats' = usageStats /\ usageFile' = usageFile
               /\ (/\ AttemptReturns(r)
                   /\ req[r].stage = "analysis"
                   /\ req'[r].lastOutcome = [type |-> "ok", content |-> "malformed"]) =>
                     /\ usageStats'.imageHashes = usageStats.imageHashes
                     /\ req'[r].pc = "done"
                     /\ resp'[r].status = 500]_vars

\* server.js: one image was analysed and stored; the analysis reply for
\* another image could not be parsed: its upstream call is counted, and the
\* cache holds the first image only
C22_Witness ==
    /\ rev = "server.js"
    /\ Quiet
    /\ IsAnalyze(1) /\ Succeeded(1) /\ req[1].counted = 2
    /\ IsAnalyze(2) /\ resp[2].status = 500 /\ req[2].counted = 1
    /\ req[2].lastOutcome = [type |-> "ok", content |-> "malformed"]
    /\ req[2].buffer # req[1].buffer
    /\ DOMAIN usageStats.imageHashes = {generateImageHash(req[1].buffer)}
    /\ usageStats.totalRequests = 3

\* ------------------------------------------------------------------- C23
\* C23: a canned fallback result, produced because the upstream call failed
\* or hit a quota limit, is never written to the server cache, so that a
\* later upload of the same image is not answered from the earlier fallback:
\* no cache entry holds the canned result, and no request is answered from a
\* cache entry that holds it
C23_FallbackNeverCached ==
    /\ \A h \in DOMAIN usageStats.imageHashes :
          usageStats.imageHashes[h].result # QuotaResult
    /\ \A r \in Requests :
          (IsAnalyze(r) /\ ServedFromCache(r)) => req[r].stored # QuotaResult

\* ------------------------------------------------------------------- C24
UsageAnswered(r) == req[r].kind = "usage" /\ req[r].pc = "done"

\* C24: when UNLIMITED_MODE is set to a value other than 'true', GET
\* /api/usage reports unlimitedMode false with estimatedDailyLimit 100, and
\* quotaWarning true as soon as today's count of requests exceeds 80; when it
\* is 'true' or unset, quotaWarning is always false
C24_UnlimitedModeIsConfigurable ==
    \A r \in Requests :
        UsageAnswered(r) =>
          LET status == resp[r].body.estimatedQuotaStatus
              limited == /\ "UNLIMITED_MODE" \in DOMAIN env
                         /\ env.UNLIMITED_MODE # "true"
          IN /\ limited =>
                  /\ status.unlimitedMode = FALSE
                  /\ status.estimatedDailyLimit = [number |-> DAILY_LIMIT]
                  /\ status.requestsToday > REQUEST_WARNING => status.quotaWarning
             /\ ~limited => status.quotaWarning = FALSE

\* ------------------------------------------------------------------- C25
\* C25: analyzeImageAndGenerateCaptions always terminates: it sends at most 3
\* requests to the backend for one user action, retries only after a
\* timeout, abort, network or fetch error (never after the offline check
\* failed, never after the server answered with an error), and ends with a
\* result or with the last error
C25_ClientCallTerminates ==
    /\ [](/\ client.callSent <= CLIENT_MAX_RETRIES + 1
          /\ client.retriedAfter \subseteq {"rejected"}
          /\ client.pc \in {"idle", "fetching", "delay"})
    /\ (client.pc # "idle") ~> (client.pc = "idle")

====
